---- MODULE Spec2Model ----
(***************************************************************************)
(* Model of the ExpenseTracker class of src/expense2.cpp.                  *)
(*                                                                         *)
(* State: the four containers of the class (expenses, categoryMap,         *)
(* categoryTotals, maxHeap), plus observation variables that record the    *)
(* last call made from main's menu loop and what it printed, plus history  *)
(* variables (history, repeat, step) that no container depends on.         *)
(*                                                                         *)
(* Amounts are doubles in the source.  They are modelled in hundredths     *)
(* (12.50 is 1250); every amount used is exactly representable in binary   *)
(* and every sum stays far below 2^53, so double addition is exact here.   *)
(* Strings that are only compared for equality (categories) are TLA+       *)
(* strings.  Dates are compared with std::string::operator<, so each date  *)
(* has its sequence of character codes (Chars), compared lexicographically.*)
(***************************************************************************)
EXTENDS Integers, Sequences, FiniteSets, TLC

\* --------------------------------------------------------------- bounds
\* Largest number of addExpense calls explored.
MaxExpenses == 3

\* ------------------------------------------------------------ input data
\* The dates in use.
D05 == "2024-01-05"
D06 == "2024-01-06"

\* The (amount, category, date) triples main may pass to addExpense.  The
\* same triple may be passed again, which gives equal amounts and dates.
Inputs ==
    { <<1250, "food", D05>>, <<4000, "food", D06>>, <<10000, "travel", D05>> }

\* Categories and dates a query may be asked about.  Each is absent from the
\* store until an addExpense with it has been made.
QueryCategories == {"food", "travel"}
QueryDates == {D05, D06}

\* size_t arguments of deleteExpense and viewTopExpenses: every value up to
\* the largest log size, so each log shorter than that sees an index that
\* is out of range and a count larger than the heap.
Indexes == 0 .. MaxExpenses
Counts == 0 .. MaxExpenses

VARIABLES
    expenses,        \* std::vector<Expense>, a sequence (position p+1 is C++ index p)
    categoryMap,     \* unordered_map<string, vector<Expense>>: function on its key set
    categoryTotals,  \* unordered_map<string, double>: function on its key set
    maxHeap,         \* priority_queue content, as the sequence of pushed copies
    call,            \* the member function this iteration of main's loop called, with
                     \* its arguments; NoCall while main is at its menu prompt
    out,             \* the records (or totals) that call printed, in print order
    msg,             \* which branch message that call printed, "" if none
    history,         \* the arguments of every addExpense call so far, in call order
    repeat,          \* TRUE iff call is a deleteExpense of an entry whose flag an
                     \* earlier deleteExpense had already set
    step             \* progress along Scenario, Off once the run has left it

vars == <<expenses, categoryMap, categoryTotals, maxHeap, call, out, msg,
          history, repeat, step>>

store == <<expenses, categoryMap, categoryTotals, maxHeap>>

\* ------------------------------------------------------------- the record
\* struct Expense.  id is a history field that no code reads: in a log entry
\* it is the number of the addExpense call that appended the entry (1 for the
\* first), and it is 0 in every other Expense value.
Expense(amount, category, date, id) ==
    [amount |-> amount, category |-> category, date |-> date,
     deleted |-> FALSE, id |-> id]

\* std::string::operator< : lexicographic comparison of character codes.
RECURSIVE StrLess(_, _)
StrLess(a, b) ==
    IF b = <<>> THEN FALSE
    ELSE IF a = <<>> THEN TRUE
    ELSE IF Head(a) < Head(b) THEN TRUE
    ELSE IF Head(b) < Head(a) THEN FALSE
    ELSE StrLess(Tail(a), Tail(b))

\* The characters of each date in use, as character codes ('-' is 45, '0' is 48).
Chars ==
    [d \in QueryDates |->
        IF d = D05 THEN <<50, 48, 50, 52, 45, 48, 49, 45, 48, 53>>
                   ELSE <<50, 48, 50, 52, 45, 48, 49, 45, 48, 54>>]

\* date < other.date on every pair of the dates in use, computed once.
DateLess == [a \in QueryDates |-> [b \in QueryDates |-> StrLess(Chars[a], Chars[b])]]

\* Expense::operator<
ExpenseLess(a, b) == DateLess[a.date][b.date]

\* Variant: the comparison is the other way round (a min-heap).
CompareByAmount_Reversed(a, b) == a.amount > b.amount

\* CompareByAmount::operator()
CompareByAmount(a, b) == a.amount < b.amount


\* ------------------------------------------------------- small utilities
\* The sequence s without its element at position j.
RemoveAt(s, j) == SubSeq(s, 1, j - 1) \o SubSeq(s, j + 1, Len(s))

\* All orders in which the elements of the finite set S can be listed.
RECURSIVE Orders(_)
Orders(S) ==
    IF S = {} THEN { <<>> }
    ELSE UNION { { <<x>> \o t : t \in Orders(S \ {x}) } : x \in S }

\* ------------------------------------------------------------ addExpense
\* categoryMap[category].push_back(exp): operator[] creates an empty bucket
\* for a key that is absent.
\* Variant: the bucket is assigned the new record instead of growing by it.
PushBucket_Replace(map, category, exp) ==
    [k \in DOMAIN map \cup {category} |-> IF k = category THEN <<exp>> ELSE map[k]]

PushBucket(map, category, exp) ==
    [k \in DOMAIN map \cup {category} |->
        IF k = category
        THEN Append(IF category \in DOMAIN map THEN map[category] ELSE <<>>, exp)
        ELSE map[k]]

\* categoryTotals[category] += amount: operator[] value-initialises an
\* absent entry to 0.
\* Variant: = in place of +=.
AddTotal_Overwrite(totals, category, amount) ==
    [k \in DOMAIN totals \cup {category} |->
        IF k = category THEN amount ELSE totals[k]]

AddTotal(totals, category, amount) ==
    [k \in DOMAIN totals \cup {category} |->
        IF k = category
        THEN (IF category \in DOMAIN totals THEN totals[category] ELSE 0) + amount
        ELSE totals[k]]

\* maxHeap.push(exp).  The sequence is the heap's content; which of several
\* equal-amount entries is on top is left to PopChoices.
PushHeap(heap, exp) == Append(heap, exp)

\* ---------------------------------------------------------- viewExpenses
\* The loop of viewExpenses: every log entry whose flag is clear, in log order.
ViewExpensesOut(log) == SelectSeq(log, LAMBDA e : ~e.deleted)

\* ------------------------------------------------------ filterByCategory
\* The records filterByCategory prints.
FilterByCategoryOut(map, category) ==
    IF category \in DOMAIN map
    THEN SelectSeq(map[category], LAMBDA e : ~e.deleted)
    ELSE <<>>

\* The branch filterByCategory takes.
FilterByCategoryMsg(map, category) ==
    IF category \in DOMAIN map THEN "" ELSE "No expenses found for this category."

\* ---------------------------------------------------- viewCategoryTotals
\* The lines viewCategoryTotals can print: one per key, in any iteration
\* order of the unordered_map.
ViewCategoryTotalsOuts(totals) ==
    { [i \in DOMAIN o |-> [category |-> o[i], total |-> totals[o[i]]]] :
        o \in Orders(DOMAIN totals) }

\* ---------------------------------------------------------- filterByDate
\* Variant: a copy is sorted and the log is left as it was.
SortOutcomes_Copy(log) == { log }

\* What std::sort(expenses.begin(), expenses.end()) may leave in the vector:
\* any permutation of the log that is ordered by operator< (std::sort is not
\* stable, so entries with equal dates may end in any relative order).
SortOutcomes(log) ==
    { [i \in DOMAIN log |-> log[p[i]]] : p \in
        { q \in Permutations(DOMAIN log) :
            \A i, j \in DOMAIN log :
                i < j => ~ExpenseLess(log[q[j]], log[q[i]]) } }

\* std::lower_bound on positions first .. first+len-1: the first position
\* whose entry is not less than value (binary search).
RECURSIVE LowerBound(_, _, _, _)
LowerBound(log, first, len, value) ==
    IF len = 0 THEN first
    ELSE LET half == len \div 2
             mid == first + half
         IN IF ExpenseLess(log[mid], value)
            THEN LowerBound(log, mid + 1, len - half - 1, value)
            ELSE LowerBound(log, first, half, value)

\* Variant: the lower bound taken for both ends of the range.
UpperBound_AsLower(log, first, len, value) == LowerBound(log, first, len, value)

\* std::upper_bound: the first position whose entry is greater than value.
RECURSIVE UpperBound(_, _, _, _)
UpperBound(log, first, len, value) ==
    IF len = 0 THEN first
    ELSE LET half == len \div 2
             mid == first + half
         IN IF ExpenseLess(value, log[mid])
            THEN UpperBound(log, first, half, value)
            ELSE UpperBound(log, mid + 1, len - half - 1, value)

\* std::equal_range(begin, end, Expense{0, "", targetDate}): <<first, second>>.
EqualRange(log, targetDate) ==
    LET value == Expense(0, "", targetDate, 0)
    IN <<LowerBound(log, 1, Len(log), value), UpperBound(log, 1, Len(log), value)>>

\* The records filterByDate prints from the sorted log.
FilterByDateOut(log, targetDate) ==
    LET range == EqualRange(log, targetDate)
    IN IF range[1] = range[2] THEN <<>>
       ELSE SelectSeq(SubSeq(log, range[1], range[2] - 1), LAMBDA e : ~e.deleted)

\* The branch filterByDate takes.
FilterByDateMsg(log, targetDate) ==
    LET range == EqualRange(log, targetDate)
    IN IF range[1] = range[2] THEN "No expenses found for date" ELSE ""

\* --------------------------------------------------------- deleteExpense
\* Variant: the test is off by one and refuses the last index.
IndexInRange_OffByOne(log, index) == index + 1 < Len(log)

\* The test index < expenses.size().
IndexInRange(log, index) == index < Len(log)

\* Variant: the flag is flipped instead of set.
MarkDeleted_Toggle(e) == [e EXCEPT !.deleted = ~e.deleted]

\* expenses[index].deleted = true.
MarkDeleted(e) == [e EXCEPT !.deleted = TRUE]

\* The log deleteExpense leaves.
DeleteLog(log, index) ==
    IF IndexInRange(log, index)
    THEN [log EXCEPT ![index + 1] = MarkDeleted(log[index + 1])]
    ELSE log

\* The message deleteExpense prints.
DeleteMsg(log, index) ==
    IF IndexInRange(log, index) THEN "Expense deleted lazily." ELSE "Invalid index."

\* ------------------------------------------------------- viewTopExpenses
\* The positions tempHeap.top() may return: an entry that CompareByAmount
\* puts below no other entry.
PopChoices(heap) ==
    { j \in DOMAIN heap : \A k \in DOMAIN heap : ~CompareByAmount(heap[j], heap[k]) }

\* Variant: an entry that is skipped does not count as an iteration.
RECURSIVE TopLoop_BackFill(_, _, _)
TopLoop_BackFill(tempHeap, i, N) ==
    IF ~(i < N /\ tempHeap # <<>>) THEN { <<>> }
    ELSE UNION {
        LET top == tempHeap[j]
            rest == TopLoop_BackFill(RemoveAt(tempHeap, j),
                                     IF top.deleted THEN i ELSE i + 1, N)
        IN { (IF ~top.deleted THEN <<top>> ELSE <<>>) \o r : r \in rest }
        : j \in PopChoices(tempHeap) }

\* The loop of viewTopExpenses from iteration i on: the set of sequences it
\* can print.
RECURSIVE TopLoop(_, _, _)
TopLoop(tempHeap, i, N) ==
    IF ~(i < N /\ tempHeap # <<>>) THEN { <<>> }
    ELSE UNION {
        LET top == tempHeap[j]
            rest == TopLoop(RemoveAt(tempHeap, j), i + 1, N)
        IN { (IF ~top.deleted THEN <<top>> ELSE <<>>) \o r : r \in rest }
        : j \in PopChoices(tempHeap) }

\* The sequences viewTopExpenses(N) can print: the loop run on a copy of maxHeap.
ViewTopExpensesOuts(heap, N) == TopLoop(heap, 0, N)

\* ------------------------------------------------- the calls main makes
\* One iteration of main's menu loop: which member function it called and
\* with which arguments (fields a call does not have are 0 or "").
Call(op, amount, category, date, num) ==
    [op |-> op, amount |-> amount, category |-> category, date |-> date, num |-> num]

NoCall == Call("none", 0, "", "", 0)

\* The example run: three adds, a date filter, a top-2, a delete of index 0,
\* and a listing.
Scenario ==
    << Call("addExpense", 1250, "food", D05, 0),
       Call("addExpense", 4000, "food", D06, 0),
       Call("addExpense", 10000, "travel", D05, 0),
       Call("filterByDate", 0, "", D05, 0),
       Call("viewTopExpenses", 0, "", "", 2),
       Call("deleteExpense", 0, "", "", 0),
       Call("viewExpenses", 0, "", "", 0) >>

\* step value of a run that is not (or no longer) the example run.
Off == 0 - 1

\* Bookkeeping common to every call c, made from the menu prompt: remember
\* it, whether it is a deleteExpense of an entry already marked, and how far
\* along Scenario the run is.
Observe(c) ==
    /\ call = NoCall
    /\ call' = c
    /\ repeat' = /\ c.op = "deleteExpense"
                 /\ c.num < Len(expenses)
                 /\ expenses[c.num + 1].deleted
    /\ step' = IF step # Off /\ step < Len(Scenario) /\ Scenario[step + 1] = c
               THEN step + 1 ELSE Off

Init ==
    /\ expenses = <<>>
    /\ categoryMap = <<>>
    /\ categoryTotals = <<>>
    /\ maxHeap = <<>>
    /\ call = NoCall
    /\ out = <<>>
    /\ msg = ""
    /\ history = <<>>
    /\ repeat = FALSE
    /\ step = 0

addExpense(amount, category, date) ==
    /\ Len(expenses) < MaxExpenses
    /\ LET exp == Expense(amount, category, date, 0)
       IN /\ expenses' = Append(expenses, [exp EXCEPT !.id = Len(history) + 1])
          /\ categoryMap' = PushBucket(categoryMap, category, exp)
          /\ categoryTotals' = AddTotal(categoryTotals, category, amount)
          /\ maxHeap' = PushHeap(maxHeap, exp)
    /\ history' = Append(history, <<amount, category, date>>)
    /\ out' = <<>>
    /\ msg' = ""
    /\ Observe(Call("addExpense", amount, category, date, 0))

viewExpenses ==
    /\ out' = ViewExpensesOut(expenses)
    /\ msg' = ""
    /\ Observe(Call("viewExpenses", 0, "", "", 0))
    /\ UNCHANGED <<expenses, categoryMap, categoryTotals, maxHeap, history>>

\* Variant: the bucket is looked up with operator[], which creates it.
filterByCategory_Creates(category) ==
    /\ out' = FilterByCategoryOut(categoryMap, category)
    /\ msg' = FilterByCategoryMsg(categoryMap, category)
    /\ categoryMap' = [k \in DOMAIN categoryMap \cup {category} |->
                         IF k \in DOMAIN categoryMap THEN categoryMap[k] ELSE <<>>]
    /\ Observe(Call("filterByCategory", 0, category, "", 0))
    /\ UNCHANGED <<expenses, categoryTotals, maxHeap, history>>

filterByCategory(category) ==
    /\ out' = FilterByCategoryOut(categoryMap, category)
    /\ msg' = FilterByCategoryMsg(categoryMap, category)
    /\ Observe(Call("filterByCategory", 0, category, "", 0))
    /\ UNCHANGED <<expenses, categoryMap, categoryTotals, maxHeap, history>>

viewCategoryTotals ==
    /\ out' \in ViewCategoryTotalsOuts(categoryTotals)
    /\ msg' = ""
    /\ Observe(Call("viewCategoryTotals", 0, "", "", 0))
    /\ UNCHANGED <<expenses, categoryMap, categoryTotals, maxHeap, history>>

filterByDate(targetDate) ==
    /\ expenses' \in SortOutcomes(expenses)
    /\ out' = FilterByDateOut(expenses', targetDate)
    /\ msg' = FilterByDateMsg(expenses', targetDate)
    /\ Observe(Call("filterByDate", 0, "", targetDate, 0))
    /\ UNCHANGED <<categoryMap, categoryTotals, maxHeap, history>>

\* Variant: the flag is also set on the heap copies of the record.
deleteExpense_Propagating(index) ==
    /\ expenses' = DeleteLog(expenses, index)
    /\ maxHeap' = [i \in DOMAIN maxHeap |->
                     IF /\ IndexInRange(expenses, index)
                        /\ maxHeap[i].amount = expenses[index + 1].amount
                        /\ maxHeap[i].category = expenses[index + 1].category
                        /\ maxHeap[i].date = expenses[index + 1].date
                     THEN MarkDeleted(maxHeap[i]) ELSE maxHeap[i]]
    /\ out' = <<>>
    /\ msg' = DeleteMsg(expenses, index)
    /\ Observe(Call("deleteExpense", 0, "", "", index))
    /\ UNCHANGED <<categoryMap, categoryTotals, history>>

deleteExpense(index) ==
    /\ expenses' = DeleteLog(expenses, index)
    /\ out' = <<>>
    /\ msg' = DeleteMsg(expenses, index)
    /\ Observe(Call("deleteExpense", 0, "", "", index))
    /\ UNCHANGED <<categoryMap, categoryTotals, maxHeap, history>>

\* What is left of heap after n entries have been popped from it.
RECURSIVE HeapAfterPops(_, _)
HeapAfterPops(heap, n) ==
    IF n = 0 \/ heap = <<>> THEN heap
    ELSE HeapAfterPops(RemoveAt(heap, CHOOSE j \in PopChoices(heap) : TRUE), n - 1)

\* Variant: the loop pops from maxHeap itself, not from a copy.
viewTopExpenses_PopsStored(N) ==
    /\ out' \in ViewTopExpensesOuts(maxHeap, N)
    /\ maxHeap' = HeapAfterPops(maxHeap, N)
    /\ msg' = ""
    /\ Observe(Call("viewTopExpenses", 0, "", "", N))
    /\ UNCHANGED <<expenses, categoryMap, categoryTotals, history>>

viewTopExpenses(N) ==
    /\ out' \in ViewTopExpensesOuts(maxHeap, N)
    /\ msg' = ""
    /\ Observe(Call("viewTopExpenses", 0, "", "", N))
    /\ UNCHANGED <<expenses, categoryMap, categoryTotals, maxHeap, history>>

\* main's loop comes round to its menu prompt: the call is over.
menu ==
    /\ call # NoCall
    /\ call' = NoCall
    /\ out' = <<>>
    /\ msg' = ""
    /\ repeat' = FALSE
    /\ UNCHANGED <<expenses, categoryMap, categoryTotals, maxHeap, history, step>>

Next ==
    \/ menu
    \/ \E in \in Inputs : addExpense(in[1], in[2], in[3])
    \/ viewExpenses
    \/ \E category \in QueryCategories : filterByCategory(category)
    \/ viewCategoryTotals
    \/ \E targetDate \in QueryDates : filterByDate(targetDate)
    \/ \E index \in Indexes : deleteExpense(index)
    \/ \E N \in Counts : viewTopExpenses(N)

Spec == Init /\ [][Next]_vars

\* ----------------------------------- the loop of viewTopExpenses by itself
\* The Expense values a heap entry can be, with either value of the flag.
HeapEntries ==
    { [Expense(in[1], in[2], in[3], 0) EXCEPT !.deleted = d] :
        in \in Inputs, d \in BOOLEAN }

\* The heaps of at most MaxExpenses entries.
Heaps == UNION { [1 .. n -> HeapEntries] : n \in 0 .. MaxExpenses }

\* viewTopExpenses as a function of the heap it copies: any heap, the other
\* members empty.
InitTop ==
    /\ maxHeap \in Heaps
    /\ expenses = <<>>
    /\ categoryMap = <<>>
    /\ categoryTotals = <<>>
    /\ call = NoCall
    /\ out = <<>>
    /\ msg = ""
    /\ history = <<>>
    /\ repeat = FALSE
    /\ step = Off

NextTop ==
    \/ menu
    \/ \E N \in Counts : viewTopExpenses(N)

SpecTop == InitTop /\ [][NextTop]_vars

\* Well-formedness of the state.
TypeOK ==
    /\ Len(expenses) <= MaxExpenses
    /\ DOMAIN categoryMap \subseteq {"food", "travel"}
    /\ DOMAIN categoryTotals \subseteq {"food", "travel"}
    /\ Len(maxHeap) <= MaxExpenses
    /\ repeat \in BOOLEAN
    /\ step \in Off .. Len(Scenario)

\* ===================================================================
\* Vocabulary of the properties
\* ===================================================================
Range(s) == { s[i] : i \in DOMAIN s }

\* What a record is to the user: its amount, category and date.
Triple(e) == <<e.amount, e.category, e.date>>

Triples(s) == [i \in DOMAIN s |-> Triple(s[i])]

AmountsOf(s) == [i \in DOMAIN s |-> s[i].amount]

\* How often x occurs in the sequence s.
Count(s, x) == Cardinality({ i \in DOMAIN s : s[i] = x })

\* s and t hold the same elements the same number of times.
SameBag(s, t) ==
    /\ Len(s) = Len(t)
    /\ \A x \in Range(s) : Count(s, x) = Count(t, x)

\* The log entries whose flag is clear.
Visible == SelectSeq(expenses, LAMBDA e : ~e.deleted)

\* The log entry appended by the k-th addExpense call.
Inserted(k) == CHOOSE e \in Range(expenses) : e.id = k

\* The visible log entries in the order in which addExpense appended them.
VisibleInInsertionOrder ==
    SelectSeq([k \in DOMAIN expenses |-> Inserted(k)], LAMBDA e : ~e.deleted)

\* The sum of the amounts of the addExpense calls in h made with category K.
RECURSIVE SumFor(_, _)
SumFor(h, K) ==
    IF h = <<>> THEN 0
    ELSE (IF Head(h)[2] = K THEN Head(h)[1] ELSE 0) + SumFor(Tail(h), K)

\* The first n elements of s, all of s when it has fewer.
Prefix(s, n) == SubSeq(s, 1, IF n < Len(s) THEN n ELSE Len(s))

DeletedOk == "Expense deleted lazily."
InvalidIndex == "Invalid index."

\* ===================================================================
\* C1
\* ===================================================================
\* C1: in every reachable state viewExpenses lists exactly the records that
\* are not marked deleted, in the order in which addExpense inserted them;
\* and that is what a viewExpenses call has printed.
C1_ListInInsertionOrder ==
    /\ Triples(ViewExpensesOut(expenses)) = Triples(VisibleInInsertionOrder)
    /\ call.op = "viewExpenses" => Triples(out) = Triples(VisibleInInsertionOrder)

\* ===================================================================
\* C2
\* ===================================================================
\* C2: for every category K, categoryTotals[K] is the sum of the amounts of
\* all addExpense calls made so far with category K (no entry when there was
\* no such call), whatever deletions and queries have happened since.
C2_TotalsMatchAdds ==
    \A K \in QueryCategories :
        IF K \in DOMAIN categoryTotals
        THEN categoryTotals[K] = SumFor(history, K)
        ELSE \A i \in DOMAIN history : history[i][2] # K

\* A deleteExpense has just marked an entry of a category that was added
\* twice, and the total of that category still counts both amounts.
C2_Witness ==
    /\ call.op = "deleteExpense"
    /\ msg = DeletedOk
    /\ \E K \in DOMAIN categoryTotals :
        /\ expenses[call.num + 1].category = K
        /\ Cardinality({ i \in DOMAIN history : history[i][2] = K }) >= 2
        /\ categoryTotals[K] = SumFor(history, K)
        /\ categoryTotals[K] > expenses[call.num + 1].amount

\* ===================================================================
\* C3
\* ===================================================================
\* The amounts of the visible log entries, largest first.
VisibleAmountsDesc == SortSeq(AmountsOf(Visible), LAMBDA a, b : a > b)

\* C3: for every n, viewTopExpenses(n) prints the n visible records with the
\* largest amounts, largest first (all visible records when there are fewer
\* than n, nothing when n = 0): a deleted record is skipped and does not
\* count toward n.
C3_TopNVisible ==
    /\ \A N \in Counts : \A o \in ViewTopExpensesOuts(maxHeap, N) :
        AmountsOf(o) = Prefix(VisibleAmountsDesc, N)
    /\ call.op = "viewTopExpenses" => AmountsOf(out) = Prefix(VisibleAmountsDesc, call.num)

\* ===================================================================
\* C4
\* ===================================================================
\* The visible log entries whose date is d.
VisibleOn(d) == SelectSeq(expenses, LAMBDA e : e.date = d /\ ~e.deleted)

\* C4: a filterByDate(d) call prints exactly the log entries that are not
\* deleted and whose date is d, each once, in some order; nothing when there
\* is no such entry.
C4_DateFilterExact ==
    call.op = "filterByDate" =>
        /\ SameBag(out, VisibleOn(call.date))
        /\ VisibleOn(call.date) = <<>> => out = <<>>

\* A filterByDate call that reordered the log has printed a record and
\* left out a deleted record of the same date.
C4_Witness ==
    /\ call.op = "filterByDate"
    /\ out # <<>>
    /\ \E k \in DOMAIN expenses : expenses[k].id # k
    /\ \E k \in DOMAIN expenses : expenses[k].date = call.date /\ expenses[k].deleted

\* ===================================================================
\* C5
\* ===================================================================
\* The visible log entries whose category is c.
VisibleIn(c) == SelectSeq(expenses, LAMBDA e : e.category = c /\ ~e.deleted)

\* C5: for every category c, filterByCategory(c) prints exactly the records
\* of category c that are not deleted, so it agrees with the category-c
\* records that viewExpenses lists.
C5_CategoryFilterSkipsDeleted ==
    /\ \A c \in QueryCategories :
        SameBag(Triples(FilterByCategoryOut(categoryMap, c)), Triples(VisibleIn(c)))
    /\ call.op = "filterByCategory" =>
        SameBag(Triples(out), Triples(VisibleIn(call.category)))

\* ===================================================================
\* C6
\* ===================================================================
\* C6: the record inserted by the k-th addExpense call (counting from 0) is
\* at index k of the log in every later state, so deleteExpense(k) marks
\* that record and no other.
C6_IndexStable ==
    /\ \A k \in DOMAIN expenses : expenses[k].id = k
    /\ (call.op = "deleteExpense" /\ msg = DeletedOk) =>
        Inserted(call.num + 1).deleted

\* ===================================================================
\* C7
\* ===================================================================
\* C7: a deleteExpense(i) call with i below the log size prints the success
\* message and leaves the flag of log[i] set; with i at or above the log size
\* it prints "Invalid index." and leaves the log, the category buckets, the
\* category totals and the heap as they were.
C7_DeleteBranches ==
    [][call'.op = "deleteExpense" =>
        IF call'.num < Len(expenses)
        THEN /\ msg' = DeletedOk
             /\ Len(expenses') = Len(expenses)
             /\ expenses'[call'.num + 1].deleted
        ELSE /\ msg' = InvalidIndex
             /\ store' = store]_vars

\* A deleteExpense with the index one past the last entry of a log that
\* already has a deleted entry has been refused.
C7_Witness ==
    /\ call.op = "deleteExpense"
    /\ msg = InvalidIndex
    /\ call.num = Len(expenses)
    /\ \E k \in DOMAIN expenses : expenses[k].deleted
    /\ \E k \in DOMAIN expenses : ~expenses[k].deleted

\* ===================================================================
\* C8
\* ===================================================================
\* C8: for every in-range index i, deleteExpense(i) applied to the log that
\* deleteExpense(i) leaves gives that same log, and both calls print the
\* success message; and a deleteExpense call on an entry that is already
\* marked leaves the whole store as it was and prints the success message.
C8_DeleteIdempotent ==
    [][/\ \A i \in Indexes : IndexInRange(expenses, i) =>
            LET once == DeleteLog(expenses, i)
            IN /\ DeleteLog(once, i) = once
               /\ DeleteMsg(expenses, i) = DeletedOk
               /\ DeleteMsg(once, i) = DeletedOk
       /\ (call'.op = "deleteExpense" /\ repeat') =>
            (store' = store /\ msg' = DeletedOk)]_vars

\* A deleteExpense has been called on an entry that an earlier
\* deleteExpense had marked, in a log with another entry still visible.
C8_Witness ==
    /\ call.op = "deleteExpense"
    /\ repeat
    /\ msg = DeletedOk
    /\ expenses[call.num + 1].deleted
    /\ \E k \in DOMAIN expenses : ~expenses[k].deleted

\* ===================================================================
\* C9
\* ===================================================================
\* C9: in the run add(12.50,food,2024-01-05), add(40.00,food,2024-01-06),
\* add(100.00,travel,2024-01-05), filterByDate(2024-01-05),
\* viewTopExpenses(2), deleteExpense(0), viewExpenses from the empty store:
\* the three records get indices 0, 1, 2; the totals are food 52.50 and
\* travel 100.00 from the third add on; filterByDate prints the amounts
\* {12.50, 100.00}; viewTopExpenses(2) prints [100.00, 40.00]; and the final
\* viewExpenses lists the 40.00 food record followed by the 100.00 travel
\* record.
C9_Scenario ==
    /\ step >= 3 =>
        /\ categoryTotals = [K \in {"food", "travel"} |->
                                IF K = "food" THEN 5250 ELSE 10000]
        /\ Triples([k \in 1 .. 3 |-> Inserted(k)]) =
             << <<1250, "food", D05>>, <<4000, "food", D06>>, <<10000, "travel", D05>> >>
    /\ step = 3 => \A k \in 1 .. 3 : expenses[k].id = k
    /\ (step = 4 /\ call.op = "filterByDate") =>
        /\ Len(out) = 2
        /\ Range(AmountsOf(out)) = {1250, 10000}
    /\ (step = 5 /\ call.op = "viewTopExpenses") => AmountsOf(out) = <<10000, 4000>>
    /\ (step = 7 /\ call.op = "viewExpenses") =>
        Triples(out) = << <<4000, "food", D06>>, <<10000, "travel", D05>> >>

\* ===================================================================
\* C10
\* ===================================================================
\* All bucket entries of the category map, as the number of copies of x.
RECURSIVE BucketCount(_, _)
BucketCount(keys, x) ==
    IF keys = {} THEN 0
    ELSE LET k == CHOOSE c \in keys : TRUE
         IN Count(Triples(categoryMap[k]), x) + BucketCount(keys \ {k}, x)

\* C10: the log, the heap and the category buckets taken together each hold
\* exactly the records passed to addExpense so far, each as often as it was
\* passed; and every bucket entry is in the bucket of its own category.
C10_ViewsHoldSameRecords ==
    /\ SameBag(Triples(expenses), history)
    /\ SameBag(Triples(maxHeap), history)
    /\ \A x \in Range(history) :
        BucketCount(DOMAIN categoryMap, x) = Count(history, x)
    /\ \A k \in DOMAIN categoryMap :
        /\ categoryMap[k] # <<>>
        /\ \A i \in DOMAIN categoryMap[k] :
            /\ categoryMap[k][i].category = k
            /\ Triple(categoryMap[k][i]) \in Range(history)

\* Three records of both categories have been added, one of them twice; the
\* log has been reordered and an entry deleted.
C10_Witness ==
    /\ Len(history) = 3
    /\ DOMAIN categoryMap = {"food", "travel"}
    /\ \E i, j \in DOMAIN history : i # j /\ history[i] = history[j]
    /\ \E k \in DOMAIN expenses : expenses[k].id # k
    /\ \E k \in DOMAIN expenses : expenses[k].deleted
\* ===================================================================
\* C11
\* ===================================================================
Queries == {"viewExpenses", "filterByCategory", "viewCategoryTotals", "viewTopExpenses"}

\* C11: a viewExpenses, filterByCategory, viewCategoryTotals or
\* viewTopExpenses call leaves the log, the category buckets, the category
\* totals and the heap exactly as they were; in particular the heap holds
\* the same entries after viewTopExpenses(N) as before it, for every N.
C11_QueriesReadOnly ==
    [][call'.op \in Queries => store' = store]_vars

\* A viewTopExpenses call has printed at least two records of a heap that
\* still holds them all.
C11_Witness ==
    /\ call.op = "viewTopExpenses"
    /\ Len(out) >= 2
    /\ Len(maxHeap) = Len(history)
    /\ Len(maxHeap) >= 2
\* ===================================================================
\* C12
\* ===================================================================
\* No record copy held in a category bucket or in the heap is marked deleted.
CopiesUnmarked ==
    /\ \A k \in DOMAIN categoryMap : \A i \in DOMAIN categoryMap[k] :
        ~categoryMap[k][i].deleted
    /\ \A i \in DOMAIN maxHeap : ~maxHeap[i].deleted

\* C12: a deleteExpense call changes nothing but the deleted flag of the log
\* entry at its index (nothing at all when the index is out of range), and
\* in every reachable state every copy held in a category bucket or in the
\* heap has deleted = FALSE.
C12_DeleteTouchesLogFlagOnly ==
    [][/\ CopiesUnmarked
       /\ CopiesUnmarked'
       /\ call'.op = "deleteExpense" =>
            /\ categoryMap' = categoryMap
            /\ categoryTotals' = categoryTotals
            /\ maxHeap' = maxHeap
            /\ Len(expenses') = Len(expenses)
            /\ \A p \in DOMAIN expenses :
                IF p = call'.num + 1
                THEN expenses'[p] = [expenses[p] EXCEPT !.deleted = TRUE]
                ELSE expenses'[p] = expenses[p]]_vars

\* Two log entries have been marked by deleteExpense calls, the second just
\* now, and the copies of both in the buckets and the heap are unmarked.
C12_Witness ==
    /\ call.op = "deleteExpense"
    /\ msg = DeletedOk
    /\ ~repeat
    /\ Cardinality({ p \in DOMAIN expenses : expenses[p].deleted }) >= 2
    /\ Len(maxHeap) >= 2
    /\ CopiesUnmarked
\* ===================================================================
\* C13
\* ===================================================================
\* The dates of the log never go down from one position to the next.
InDateOrder(log) ==
    \A i, j \in DOMAIN log : i < j => ~DateLess[log[j].date][log[i].date]

\* C13: a filterByDate call leaves the log in non-decreasing date order,
\* holding the same entries as before (each with its amount, category, date
\* and deleted flag) in a possibly different order, and leaves the category
\* buckets, the category totals and the heap as they were.
C13_DateFilterSortsLog ==
    [][call'.op = "filterByDate" =>
        /\ InDateOrder(expenses')
        /\ Len(expenses') = Len(expenses)
        /\ Range(expenses') = Range(expenses)
        /\ SameBag(expenses', expenses)
        /\ categoryMap' = categoryMap
        /\ categoryTotals' = categoryTotals
        /\ maxHeap' = maxHeap]_vars

\* A filterByDate call has left a log of both dates, with a deleted and a
\* visible entry, in an order that is not the insertion order.
C13_Witness ==
    /\ call.op = "filterByDate"
    /\ { expenses[k].date : k \in DOMAIN expenses } = QueryDates
    /\ InDateOrder(expenses)
    /\ \E k \in DOMAIN expenses : expenses[k].id # k
    /\ \E k \in DOMAIN expenses : expenses[k].deleted
    /\ \E k \in DOMAIN expenses : ~expenses[k].deleted
\* ===================================================================
\* C14
\* ===================================================================
\* The amounts of s never go up from one position to the next.
NonIncreasing(s) == \A i, j \in DOMAIN s : i < j => s[i].amount >= s[j].amount

\* C14: in every reachable state and for every N, whatever viewTopExpenses(N)
\* prints has at most N records, in non-increasing order of amount, and
\* viewTopExpenses(0) prints no record; and that is so of what a
\* viewTopExpenses call has printed.
C14_TopAtMostNDescending ==
    /\ \A N \in Counts : \A o \in ViewTopExpensesOuts(maxHeap, N) :
        /\ Len(o) <= N
        /\ NonIncreasing(o)
        /\ N = 0 => o = <<>>
    /\ call.op = "viewTopExpenses" =>
        /\ Len(out) <= call.num
        /\ NonIncreasing(out)
        /\ call.num = 0 => out = <<>>

\* A viewTopExpenses(N) call with N >= 2 below the heap size has printed N
\* records, the first with a larger amount than the second.
C14_Witness ==
    /\ call.op = "viewTopExpenses"
    /\ call.num >= 2
    /\ call.num < Len(maxHeap)
    /\ Len(out) = call.num
    /\ out[1].amount > out[2].amount
\* ===================================================================
\* C15
\* ===================================================================
\* The ways of listing the entries of heap with the amounts never going up.
DescOrders(heap) ==
    { [i \in DOMAIN heap |-> heap[p[i]]] : p \in
        { q \in Permutations(DOMAIN heap) :
            \A i, j \in DOMAIN heap :
                i < j => heap[q[i]].amount >= heap[q[j]].amount } }

\* What is printed when exactly the first min(N, Len(d)) entries of d are
\* examined and those marked deleted are left out.
VisibleOfFirst(d, N) == SelectSeq(Prefix(d, N), LAMBDA e : ~e.deleted)

\* C15: for every heap and every N, viewTopExpenses(N) examines exactly the
\* min(N, heap size) entries with the largest amounts and prints those of
\* them that are not marked deleted: a marked entry among them is left out
\* and no further entry is taken in its place.
C15_TopNoBackFill ==
    /\ \A N \in Counts :
        ViewTopExpensesOuts(maxHeap, N) =
            { VisibleOfFirst(d, N) : d \in DescOrders(maxHeap) }
    /\ call.op = "viewTopExpenses" =>
        \E d \in DescOrders(maxHeap) : out = VisibleOfFirst(d, call.num)

\* A viewTopExpenses(N) call has printed fewer than N records although the
\* heap holds at least N unmarked entries: a marked entry was among the N
\* largest.
C15_Witness ==
    /\ call.op = "viewTopExpenses"
    /\ Len(out) < call.num
    /\ Len(SelectSeq(maxHeap, LAMBDA e : ~e.deleted)) >= call.num
\* ===================================================================
\* C16
\* ===================================================================
\* The ids of the log entries marked deleted.
DeletedIds(log) == { log[p].id : p \in { q \in DOMAIN log : log[q].deleted } }

\* C16: no step removes a log entry or clears a deleted flag: every entry
\* is still in the log after the step, with its amount, category and date,
\* and still marked if it was marked; so the log size and the number of
\* marked entries never go down, and no entry marked before a viewExpenses
\* or filterByDate call is among the records that call prints.
C16_TombstonesPermanent ==
    [][/\ Len(expenses') >= Len(expenses)
       /\ \A p \in DOMAIN expenses : \E q \in DOMAIN expenses' :
            /\ expenses'[q].id = expenses[p].id
            /\ Triple(expenses'[q]) = Triple(expenses[p])
            /\ expenses[p].deleted => expenses'[q].deleted
       /\ DeletedIds(expenses) \subseteq DeletedIds(expenses')
       /\ Cardinality(DeletedIds(expenses')) >= Cardinality(DeletedIds(expenses))
       /\ call'.op \in {"viewExpenses", "filterByDate"} =>
            \A i \in DOMAIN out' : out'[i].id \notin DeletedIds(expenses)]_vars

\* A viewExpenses call has printed a record that was added after another
\* record had been marked deleted, and not the marked one.
C16_Witness ==
    /\ call.op = "viewExpenses"
    /\ out # <<>>
    /\ \E p, q \in DOMAIN expenses :
        /\ expenses[p].deleted
        /\ ~expenses[q].deleted
        /\ expenses[q].id > expenses[p].id
    /\ \A i \in DOMAIN out : out[i].id \notin DeletedIds(expenses)
\* ===================================================================
\* C17
\* ===================================================================
\* The categories passed to addExpense so far.
AddedCategories == { history[i][2] : i \in DOMAIN history }

NotFound == "No expenses found for this category."

KeysAreAddedCategories ==
    /\ DOMAIN categoryMap = AddedCategories
    /\ DOMAIN categoryTotals = AddedCategories

\* C17: in every reachable state the keys of the category buckets and the
\* keys of the category totals are both exactly the categories passed to
\* addExpense so far; and a filterByCategory call for a category never added
\* prints the not-found message and no record, and creates no bucket and no
\* total for it.
C17_KeySetsAgree ==
    [][/\ KeysAreAddedCategories
       /\ KeysAreAddedCategories'
       /\ (call'.op = "filterByCategory" /\ call'.category \notin AddedCategories) =>
            /\ msg' = NotFound
            /\ out' = <<>>
            /\ DOMAIN categoryMap' = DOMAIN categoryMap
            /\ DOMAIN categoryTotals' = DOMAIN categoryTotals]_vars

\* filterByCategory has been called for a category never added while
\* another category has a bucket and a total.
C17_Witness ==
    /\ call.op = "filterByCategory"
    /\ msg = NotFound
    /\ call.category \notin AddedCategories
    /\ AddedCategories # {}
    /\ KeysAreAddedCategories
====
